---- MODULE Spec2Model ----
(***************************************************************************)
(* Toothpick fractal: the growth engine of FractalRenderer                 *)
(* (src/fractal_renderer.py) over Toothpick segments (src/toothpick.py),   *)
(* and the run loop that drives it.                                        *)
(*                                                                         *)
(* Coordinates are Python numbers x, y -+ length/2.  The configured        *)
(* lengths of the model are even, so that length/2 is a whole number and   *)
(* every coordinate is the integer the Python float equals (1.0 = 1).      *)
(***************************************************************************)
EXTENDS Integers, Sequences, FiniteSets

\* self: the FractalRenderer; pc: where run is; bounds: the latest result of
\* get_bounds; hist: the calls made so far
VARIABLES self, pc, bounds, hist

vars == <<self, pc, bounds, hist>>

(* ------------------------------ bounds --------------------------------- *)

\* largest configured toothpick_length the model draws (even values only)
MaxLength == 4
\* a caller of the engine makes at most this many steps between resets
MaxGeneration == 5
\* largest configured max_generations of the driver
MaxMaxGenerations == 3
\* largest configured generation_delay of the driver
MaxDelay == 2
\* largest number of events one pygame.event.get() returns
MaxBatch == 3

Lengths == {n \in 1..MaxLength : n % 2 = 0}

(* ------------------------------ Toothpick ------------------------------ *)

Toothpick(x, y, length, direction) ==
    [x |-> x, y |-> y, length |-> length, direction |-> direction]

get_endpoints(t) ==
    LET half_length == t.length \div 2
    IN  IF t.direction = "H"
        THEN << <<t.x - half_length, t.y>>, <<t.x + half_length, t.y>> >>
        ELSE << <<t.x, t.y - half_length>>, <<t.x, t.y + half_length>> >>

\* Toothpick.__eq__: center and direction, the length is not compared
Toothpick_eq(a, b) ==
    /\ a.x = b.x
    /\ a.y = b.y
    /\ a.direction = b.direction

\* "t in list" of Python, which compares with __eq__
InList(t, list) == \E i \in 1..Len(list) : Toothpick_eq(list[i], t)

\* "endpoint in other_endpoints" on the pair get_endpoints returns
InPair(endpoint, pair) == endpoint = pair[1] \/ endpoint = pair[2]

(* --------------------------- FractalRenderer --------------------------- *)

\* reset_fractal without line 43: the seed is appended to the old list
reset_fractal_keep_list(s) ==
    [s EXCEPT !.toothpicks = Append(s.toothpicks,
                                    Toothpick(0, 0, s.config.toothpick_length, "V")),
              !.current_generation = 0,
              !.frame_counter = 0,
              !.running = TRUE,
              !.used_endpoints = {}]

\* reset_fractal without line 57: the used endpoints survive
reset_fractal_keep_used(s) ==
    [s EXCEPT !.toothpicks = <<Toothpick(0, 0, s.config.toothpick_length, "V")>>,
              !.current_generation = 0,
              !.frame_counter = 0,
              !.running = TRUE]

\* reset_fractal without line 44: the generation counter survives
reset_fractal_keep_generation(s) ==
    [s EXCEPT !.toothpicks = <<Toothpick(0, 0, s.config.toothpick_length, "V")>>,
              !.frame_counter = 0,
              !.running = TRUE,
              !.used_endpoints = {}]

reset_fractal(s) ==
    [s EXCEPT !.toothpicks = <<Toothpick(0, 0, s.config.toothpick_length, "V")>>,
              !.current_generation = 0,
              !.frame_counter = 0,
              !.running = TRUE,
              !.used_endpoints = {}]

Min(S) == CHOOSE m \in S : \A n \in S : m <= n
Max(S) == CHOOSE m \in S : \A n \in S : m >= n

\* every endpoint of every toothpick of the list
AllEndpoints(list) ==
    UNION {{get_endpoints(list[i])[1], get_endpoints(list[i])[2]} : i \in 1..Len(list)}

\* get_bounds over the centers instead of the endpoints
get_bounds_centers(s) ==
    IF s.toothpicks = <<>>
    THEN <<-100, 100, -100, 100>>
    ELSE LET xs == {s.toothpicks[i].x : i \in 1..Len(s.toothpicks)}
             ys == {s.toothpicks[i].y : i \in 1..Len(s.toothpicks)}
         IN  <<Min(xs), Max(xs), Min(ys), Max(ys)>>

get_bounds(s) ==
    IF s.toothpicks = <<>>
    THEN <<-100, 100, -100, 100>>
    ELSE LET xs == {p[1] : p \in AllEndpoints(s.toothpicks)}
             ys == {p[2] : p \in AllEndpoints(s.toothpicks)}
         IN  <<Min(xs), Max(xs), Min(ys), Max(ys)>>

\* touching_count that compares with the first endpoint only (line 135)
touching_count_first_endpoint(list, endpoint) ==
    Cardinality({j \in 1..Len(list) : endpoint = get_endpoints(list[j])[1]})

\* lines 132-136: how many toothpicks of the list have the endpoint as one
\* of their two endpoints
touching_count(list, endpoint) ==
    Cardinality({j \in 1..Len(list) : InPair(endpoint, get_endpoints(list[j]))})

\* visit_endpoint with the child in the direction of its parent (line 141)
visit_endpoint_same_direction(s, toothpick, endpoint, acc) ==
    IF endpoint \in acc.used_endpoints
    THEN acc
    ELSE IF touching_count(s.toothpicks, endpoint) = 1
         THEN LET new_direction == toothpick.direction
                  new_toothpick == Toothpick(endpoint[1], endpoint[2],
                                             s.config.toothpick_length, new_direction)
              IN  IF /\ ~InList(new_toothpick, s.toothpicks)
                     /\ ~InList(new_toothpick, acc.new_toothpicks)
                  THEN [new_toothpicks |-> Append(acc.new_toothpicks, new_toothpick),
                        used_endpoints |-> acc.used_endpoints \cup {endpoint}]
                  ELSE acc
         ELSE acc

\* visit_endpoint with "touching_count >= 1" for "== 1" (line 139)
visit_endpoint_touching_any(s, toothpick, endpoint, acc) ==
    IF endpoint \in acc.used_endpoints
    THEN acc
    ELSE IF touching_count(s.toothpicks, endpoint) >= 1
         THEN LET new_direction == IF toothpick.direction = "V" THEN "H" ELSE "V"
                  new_toothpick == Toothpick(endpoint[1], endpoint[2],
                                             s.config.toothpick_length, new_direction)
              IN  IF /\ ~InList(new_toothpick, s.toothpicks)
                     /\ ~InList(new_toothpick, acc.new_toothpicks)
                  THEN [new_toothpicks |-> Append(acc.new_toothpicks, new_toothpick),
                        used_endpoints |-> acc.used_endpoints \cup {endpoint}]
                  ELSE acc
         ELSE acc

\* visit_endpoint without line 152: the endpoint is not marked used
visit_endpoint_no_mark(s, toothpick, endpoint, acc) ==
    IF endpoint \in acc.used_endpoints
    THEN acc
    ELSE IF touching_count(s.toothpicks, endpoint) = 1
         THEN LET new_direction == IF toothpick.direction = "V" THEN "H" ELSE "V"
                  new_toothpick == Toothpick(endpoint[1], endpoint[2],
                                             s.config.toothpick_length, new_direction)
              IN  IF /\ ~InList(new_toothpick, s.toothpicks)
                     /\ ~InList(new_toothpick, acc.new_toothpicks)
                  THEN [new_toothpicks |-> Append(acc.new_toothpicks, new_toothpick),
                        used_endpoints |-> acc.used_endpoints]
                  ELSE acc
         ELSE acc

\* visit_endpoint that leaves the scan after the first toothpick it spawns
visit_endpoint_first_only(s, toothpick, endpoint, acc) ==
    IF acc.new_toothpicks # <<>> \/ endpoint \in acc.used_endpoints
    THEN acc
    ELSE IF touching_count(s.toothpicks, endpoint) = 1
         THEN LET new_direction == IF toothpick.direction = "V" THEN "H" ELSE "V"
                  new_toothpick == Toothpick(endpoint[1], endpoint[2],
                                             s.config.toothpick_length, new_direction)
              IN  IF /\ ~InList(new_toothpick, s.toothpicks)
                     /\ ~InList(new_toothpick, acc.new_toothpicks)
                  THEN [new_toothpicks |-> Append(acc.new_toothpicks, new_toothpick),
                        used_endpoints |-> acc.used_endpoints \cup {endpoint}]
                  ELSE acc
         ELSE acc

\* lines 128-152: the body of the inner loop for one endpoint of one toothpick;
\* acc carries new_toothpicks and the (live) used_endpoints
visit_endpoint(s, toothpick, endpoint, acc) ==
    IF endpoint \in acc.used_endpoints
    THEN acc
    ELSE IF touching_count(s.toothpicks, endpoint) = 1
         THEN LET new_direction == IF toothpick.direction = "V" THEN "H" ELSE "V"
                  new_toothpick == Toothpick(endpoint[1], endpoint[2],
                                             s.config.toothpick_length, new_direction)
              IN  IF /\ ~InList(new_toothpick, s.toothpicks)
                     /\ ~InList(new_toothpick, acc.new_toothpicks)
                  THEN [new_toothpicks |-> Append(acc.new_toothpicks, new_toothpick),
                        used_endpoints |-> acc.used_endpoints \cup {endpoint}]
                  ELSE acc
         ELSE acc

\* scan_order that visits the first endpoint of each toothpick only
scan_order_first_only(list) ==
    [n \in 1..Len(list) |-> <<n, 1>>]

\* the order of the two nested loops of lines 123-126: toothpick 1 first
\* endpoint, toothpick 1 second endpoint, toothpick 2 first endpoint, ...
scan_order(list) ==
    [n \in 1..(2 * Len(list)) |-> <<(n + 1) \div 2, 2 - (n % 2)>>]

\* lines 123-152 run over the visits order[n..]; a visit that changes
\* nothing hands on the accumulator it was given
RECURSIVE scan(_, _, _, _)
scan(s, order, n, acc) ==
    IF n > Len(order)
    THEN acc
    ELSE LET toothpick == s.toothpicks[order[n][1]]
             endpoint == get_endpoints(toothpick)[order[n][2]]
             visited == visit_endpoint(s, toothpick, endpoint, acc)
         IN  IF visited = acc
             THEN scan(s, order, n + 1, acc)
             ELSE scan(s, order, n + 1, visited)

\* generate_next_generation that starts each call with an empty used set
generate_next_generation_fresh_used(s) ==
    LET acc == scan(s, scan_order(s.toothpicks), 1,
                    [new_toothpicks |-> <<>>, used_endpoints |-> {}])
    IN  [s EXCEPT !.toothpicks = s.toothpicks \o acc.new_toothpicks,
                  !.used_endpoints = acc.used_endpoints,
                  !.current_generation = s.current_generation + 1]

\* generate_next_generation that puts the new toothpicks in front (line 154)
generate_next_generation_prepend(s) ==
    LET acc == scan(s, scan_order(s.toothpicks), 1,
                    [new_toothpicks |-> <<>>, used_endpoints |-> s.used_endpoints])
    IN  [s EXCEPT !.toothpicks = acc.new_toothpicks \o s.toothpicks,
                  !.used_endpoints = acc.used_endpoints,
                  !.current_generation = s.current_generation + 1]

generate_next_generation(s) ==
    LET acc == scan(s, scan_order(s.toothpicks), 1,
                    [new_toothpicks |-> <<>>, used_endpoints |-> s.used_endpoints])
    IN  [s EXCEPT !.toothpicks = s.toothpicks \o acc.new_toothpicks,
                  !.used_endpoints = acc.used_endpoints,
                  !.current_generation = s.current_generation + 1]

(* ------------------------------ history -------------------------------- *)

\* What the calls made so far were; st is [self, hist].
\*   hist.steps      generate_next_generation calls completed since the last
\*                   reset_fractal (or construction)
\*   hist.last       the last call made: "init", "step" or "reset"
\*   hist.late_call  some generate_next_generation call was entered with
\*                   current_generation >= max_generations
\*   hist.quit_seen  some QUIT or ESCAPE event was processed by handle_events
\*   hist.reset_seen reset_fractal was called since the latest handle_events
\*                   call began
call_generate(st) ==
    [self |-> generate_next_generation(st.self),
     hist |-> [steps |-> st.hist.steps + 1,
               last |-> "step",
               late_call |-> \/ st.hist.late_call
                             \/ st.self.current_generation >= st.self.config.max_generations,
               quit_seen |-> st.hist.quit_seen,
               reset_seen |-> st.hist.reset_seen]]

call_reset(st) ==
    [self |-> reset_fractal(st.self),
     hist |-> [st.hist EXCEPT !.steps = 0, !.last = "reset", !.reset_seen = TRUE]]

(* ------------------------------- driver -------------------------------- *)

Events == {"QUIT", "SPACE", "R", "ESCAPE", "OTHER"}

\* handle_event without the test of line 212
handle_event_unguarded(st, event) ==
    IF event = "QUIT"
    THEN [st EXCEPT !.self.running = FALSE, !.hist.quit_seen = TRUE]
    ELSE IF event = "SPACE"
         THEN call_generate(st)
         ELSE IF event = "R"
              THEN call_reset(st)
              ELSE IF event = "ESCAPE"
                   THEN [st EXCEPT !.self.running = FALSE, !.hist.quit_seen = TRUE]
                   ELSE st

\* lines 207-218: the body of the event loop for one event
handle_event(st, event) ==
    IF event = "QUIT"
    THEN [st EXCEPT !.self.running = FALSE, !.hist.quit_seen = TRUE]
    ELSE IF event = "SPACE"
         THEN IF st.self.current_generation < st.self.config.max_generations
              THEN call_generate(st)
              ELSE st
         ELSE IF event = "R"
              THEN call_reset(st)
              ELSE IF event = "ESCAPE"
                   THEN [st EXCEPT !.self.running = FALSE, !.hist.quit_seen = TRUE]
                   ELSE st

RECURSIVE handle_events(_, _)
handle_events(st, batch) ==
    IF batch = <<>>
    THEN st
    ELSE handle_events(handle_event(st, Head(batch)), Tail(batch))

\* auto_generate that tests the frame counter with ">" for ">=" (line 228)
auto_generate_late(st) ==
    IF st.self.current_generation < st.self.config.max_generations
    THEN LET counted == [st EXCEPT !.self.frame_counter = st.self.frame_counter + 1]
         IN  IF counted.self.frame_counter > counted.self.config.generation_delay
             THEN [call_generate(counted) EXCEPT !.self.frame_counter = 0]
             ELSE counted
    ELSE st

\* lines 226-230 of run
auto_generate(st) ==
    IF st.self.current_generation < st.self.config.max_generations
    THEN LET counted == [st EXCEPT !.self.frame_counter = st.self.frame_counter + 1]
         IN  IF counted.self.frame_counter >= counted.self.config.generation_delay
             THEN [call_generate(counted) EXCEPT !.self.frame_counter = 0]
             ELSE counted
    ELSE st

Batches == UNION {[1..n -> Events] : n \in 0..MaxBatch}

(* ------------------------------- states -------------------------------- *)

Configs ==
    [toothpick_length : Lengths,
     max_generations : 0..MaxMaxGenerations,
     generation_delay : 1..MaxDelay,
     auto_zoom_enabled : BOOLEAN]

NoBounds == <<>>

\* __init__: load_config, then reset_fractal on the fresh object
Init ==
    /\ \E config \in Configs :
          self = reset_fractal([config |-> config,
                                toothpicks |-> <<>>,
                                current_generation |-> 0,
                                frame_counter |-> 0,
                                running |-> TRUE,
                                used_endpoints |-> {}])
    /\ pc = "while"
    /\ bounds = NoBounds
    /\ hist = [steps |-> 0, last |-> "init", late_call |-> FALSE,
            quit_seen |-> FALSE, reset_seen |-> FALSE]

St == [self |-> self, hist |-> hist]

(* --------------------- the engine called directly ---------------------- *)

Step ==
    /\ self.current_generation < MaxGeneration
    /\ self' = call_generate(St).self
    /\ hist' = call_generate(St).hist
    /\ UNCHANGED <<pc, bounds>>

Reset ==
    /\ self' = call_reset(St).self
    /\ hist' = call_reset(St).hist
    /\ UNCHANGED <<pc, bounds>>

GetBounds ==
    /\ bounds' = get_bounds(self)
    /\ UNCHANGED <<self, pc, hist>>

Next == Step \/ Reset \/ GetBounds

Spec == Init /\ [][Next]_vars

\* The engine called directly with one configuration for each length:
\* reset_fractal, generate_next_generation and get_bounds read no
\* configuration value but toothpick_length, so the growth is the same
\* under every choice of the other three.
GrowthInit ==
    /\ Init
    /\ self.config.max_generations = MaxMaxGenerations
    /\ self.config.generation_delay = MaxDelay
    /\ self.config.auto_zoom_enabled

GrowthSpec == GrowthInit /\ [][Next]_vars

(* ----------------------------- the run loop ---------------------------- *)

\* line 222: the loop test; leaving the loop runs pygame.quit()
RunTest ==
    /\ pc = "while"
    /\ pc' = IF self.running THEN "handle_events" ELSE "quit"
    /\ UNCHANGED <<self, bounds, hist>>

\* line 223
RunHandleEvents ==
    /\ pc = "handle_events"
    /\ \E batch \in Batches :
          LET entry == [St EXCEPT !.hist.reset_seen = FALSE]
          IN  /\ self' = handle_events(entry, batch).self
              /\ hist' = handle_events(entry, batch).hist
    /\ pc' = "auto"
    /\ UNCHANGED bounds

\* lines 226-230
RunAuto ==
    /\ pc = "auto"
    /\ self' = auto_generate(St).self
    /\ hist' = auto_generate(St).hist
    /\ pc' = "draw"
    /\ UNCHANGED bounds

\* lines 232-233: draw asks get_bounds when auto zoom is on
RunDraw ==
    /\ pc = "draw"
    /\ bounds' = IF self.config.auto_zoom_enabled THEN get_bounds(self) ELSE bounds
    /\ pc' = "while"
    /\ UNCHANGED <<self, hist>>

RunNext == RunTest \/ RunHandleEvents \/ RunAuto \/ RunDraw

RunSpec == Init /\ [][RunNext]_vars

\* The loop of run never blocks: every pass ends (clock.tick returns), so
\* the loop keeps taking its next step until it has left the loop.  Every
\* step of RunNext moves pc and one is enabled exactly while pc is not
\* "quit", so the fairness of the loop is the fairness of the move of pc.
RunAdvance ==
    /\ pc # "quit"
    /\ pc' \in {"while", "handle_events", "auto", "draw", "quit"}
    /\ pc' # pc

RunFairSpec == Init /\ [][RunNext]_vars /\ WF_pc(RunAdvance)

(* ------------- generate_next_generation as a function of self ---------- *)

\* Growth states the step is applied to: the seed followed by any choice of
\* these toothpicks (in this order), each one marked used at its center as
\* the code marks the center of every toothpick it spawns.  The choice
\* <<0,-h,H>>, <<0,h,H>>, <<-h,0,V>>, <<h,0,V>> closes a square around the
\* seed and leaves no endpoint free.
Spawned(length) ==
    LET h == length \div 2
    IN  << Toothpick(0, -h, length, "H"), Toothpick(0, h, length, "H"),
           Toothpick(-h, 0, length, "V"), Toothpick(h, 0, length, "V"),
           Toothpick(-h, -h, length, "V"), Toothpick(h, h, length, "V") >>

RECURSIVE pick(_, _, _)
pick(list, chosen, n) ==
    IF n > Len(list)
    THEN <<>>
    ELSE (IF n \in chosen THEN <<list[n]>> ELSE <<>>) \o pick(list, chosen, n + 1)

\* the step reads toothpick_length only; the driver's options are fixed
StepConfigs == {config \in Configs : config.generation_delay = 1 /\ config.auto_zoom_enabled}

StepInit ==
    /\ \E config \in StepConfigs, chosen \in SUBSET (1..6), generation \in 0..1 :
          LET spawned == pick(Spawned(config.toothpick_length), chosen, 1)
          IN  /\ self = [config |-> config,
                         toothpicks |-> <<Toothpick(0, 0, config.toothpick_length, "V")>>
                                        \o spawned,
                         current_generation |-> generation,
                         frame_counter |-> 0,
                         running |-> TRUE,
                         used_endpoints |-> {<<spawned[i].x, spawned[i].y>> :
                                                i \in 1..Len(spawned)}]
              /\ hist = [steps |-> generation, last |-> "init", late_call |-> FALSE,
                      quit_seen |-> FALSE, reset_seen |-> FALSE]
    /\ pc = "while"
    /\ bounds = NoBounds

StepNext == Step

StepSpec == StepInit /\ [][StepNext]_vars

(* ------------------------------ properties ----------------------------- *)

Length == self.config.toothpick_length
Half == Length \div 2

\* the (x, y, direction) triples of a list of toothpicks
Triples(list) == {<<list[i].x, list[i].y, list[i].direction>> : i \in 1..Len(list)}

\* the action is one generate_next_generation call
IsStep == hist'.last = "step" /\ hist'.steps = hist.steps + 1

\* C1: in every state reached by steps and resets, no two elements of
\* toothpicks have the same (x, y, direction).
NoDuplicates ==
    \A i, j \in 1..Len(self.toothpicks) :
        i # j => <<self.toothpicks[i].x, self.toothpicks[i].y, self.toothpicks[i].direction>>
                 # <<self.toothpicks[j].x, self.toothpicks[j].y, self.toothpicks[j].direction>>

\* growth, a reset (the bounds asked before it are wider than the present
\* ones) and growth again
NoDuplicatesWitness ==
    /\ self.current_generation >= 3
    /\ Len(self.toothpicks) >= 11
    /\ bounds # NoBounds
    /\ bounds[4] > get_bounds(self)[4]

\* C2: a step keeps every coordinate of used_endpoints in used_endpoints and
\* appends no toothpick centered at a coordinate that was already used.
UsedOnce ==
    [][IsStep =>
         /\ self.used_endpoints \subseteq self'.used_endpoints
         /\ \A i \in (Len(self.toothpicks) + 1)..Len(self'.toothpicks) :
               <<self'.toothpicks[i].x, self'.toothpicks[i].y>> \notin self.used_endpoints]_vars

\* used coordinates survived a later step that appended toothpicks
UsedOnceWitness ==
    /\ hist.last = "step"
    /\ self.current_generation >= 3
    /\ Cardinality(self.used_endpoints) >= 10

\* C3: one step from the seed gives the seed and the horizontal toothpicks
\* at (0,-L/2) and (0,L/2); the second step adds exactly the vertical
\* toothpicks at (-L/2,-L/2), (L/2,-L/2), (-L/2,L/2), (L/2,L/2).
FirstTwoGenerations ==
    /\ self.current_generation = 1 =>
          /\ Len(self.toothpicks) = 3
          /\ self.toothpicks[1] = [x |-> 0, y |-> 0, length |-> Length, direction |-> "V"]
          /\ Triples(SubSeq(self.toothpicks, 2, 3)) = {<<0, -Half, "H">>, <<0, Half, "H">>}
    /\ self.current_generation = 2 =>
          /\ Len(self.toothpicks) = 7
          /\ self.toothpicks[1] = [x |-> 0, y |-> 0, length |-> Length, direction |-> "V"]
          /\ Triples(SubSeq(self.toothpicks, 2, 3)) = {<<0, -Half, "H">>, <<0, Half, "H">>}
          /\ Triples(SubSeq(self.toothpicks, 4, 7)) =
                {<<-Half, -Half, "V">>, <<Half, -Half, "V">>,
                 <<-Half, Half, "V">>, <<Half, Half, "V">>}
    /\ self.current_generation \in 1..2 =>
          \A i \in 1..Len(self.toothpicks) : self.toothpicks[i].length = Length

FirstTwoGenerationsWitness ==
    /\ self.current_generation = 2
    /\ hist.steps = 2
    /\ Len(self.toothpicks) = 7

\* C4 as stated: after exactly two steps from the seed get_bounds returns
\* (-L, L, -L, L).
BoundsAfterTwoStepsOriginal ==
    self.current_generation = 2 => get_bounds(self) = <<-Length, Length, -Length, Length>>

\* C4 amended: after exactly two steps from the seed get_bounds returns
\* (-L/2, L/2, -L, L).
BoundsAfterTwoSteps ==
    self.current_generation = 2 => get_bounds(self) = <<-Half, Half, -Length, Length>>

\* get_bounds was asked in the state two steps after the seed
BoundsAfterTwoStepsWitness ==
    /\ self.current_generation = 2
    /\ hist.steps = 2
    /\ bounds = <<-Half, Half, -Length, Length>>

\* C5: after reset_fractal the state is the initial one: the seed alone,
\* generation 0, no used endpoint.
ResetRestoresSeed ==
    hist.last = "reset" =>
        /\ self.toothpicks = <<[x |-> 0, y |-> 0, length |-> Length, direction |-> "V"]>>
        /\ self.current_generation = 0
        /\ self.used_endpoints = {}

\* the reset came after growth: the bounds asked before it were wider than
\* the seed's
ResetRestoresSeedWitness ==
    /\ hist.last = "reset"
    /\ bounds # NoBounds
    /\ bounds[2] >= Length

\* C6: a step only appends: the list before the step is a prefix of the
\* list after it.
StepAppends ==
    [][IsStep =>
         /\ Len(self'.toothpicks) >= Len(self.toothpicks)
         /\ SubSeq(self'.toothpicks, 1, Len(self.toothpicks)) = self.toothpicks]_vars

StepAppendsWitness ==
    /\ hist.last = "step"
    /\ self.current_generation = 4
    /\ Len(self.toothpicks) = 15

\* C8: current_generation is the number of generate_next_generation calls
\* completed since the last reset_fractal or construction.
GenerationCountsSteps == self.current_generation = hist.steps

\* steps, a reset (the bounds asked before it are wider than the present
\* ones) and two steps again
GenerationCountsStepsWitness ==
    /\ hist.last = "step"
    /\ hist.steps = 2
    /\ bounds # NoBounds
    /\ bounds[4] > get_bounds(self)[4]

\* no endpoint of the state is eligible: each is used or is not touched by
\* exactly one toothpick
NoEligible(s) ==
    \A p \in AllEndpoints(s.toothpicks) :
        \/ p \in s.used_endpoints
        \/ Cardinality({i \in 1..Len(s.toothpicks) :
                           p \in {get_endpoints(s.toothpicks[i])[1],
                                  get_endpoints(s.toothpicks[i])[2]}}) # 1

\* C9: a step on a state without an eligible endpoint leaves toothpicks and
\* used_endpoints as they are and advances current_generation by 1.
IdleStep ==
    [][(IsStep /\ NoEligible(self)) =>
         /\ self'.toothpicks = self.toothpicks
         /\ self'.used_endpoints = self.used_endpoints
         /\ self'.current_generation = self.current_generation + 1
         /\ self' = [self EXCEPT !.current_generation = self.current_generation + 1]]_vars

\* a step was made on the closed square around the seed
IdleStepWitness ==
    /\ hist.last = "step"
    /\ NoEligible(self)
    /\ Triples(self.toothpicks) = {<<0, 0, "V">>, <<0, -Half, "H">>, <<0, Half, "H">>,
                                   <<-Half, 0, "V">>, <<Half, 0, "V">>}

\* C10: under the run loop generate_next_generation is entered only with
\* current_generation < max_generations, and current_generation never
\* exceeds max_generations.
GenerationBounded ==
    /\ ~hist.late_call
    /\ self.current_generation <= self.config.max_generations

\* the run loop grew the fractal up to the bound
GenerationBoundedWitness ==
    /\ hist.last = "step"
    /\ self.config.max_generations >= 2
    /\ self.current_generation = self.config.max_generations
    /\ pc = "auto"

\* the number of toothpicks of the list that have p as an endpoint
Touching(list, p) ==
    Cardinality({i \in 1..Len(list) :
                    p \in {get_endpoints(list[i])[1], get_endpoints(list[i])[2]}})

Flip(direction) == IF direction = "H" THEN "V" ELSE "H"

\* the visits <<i, k>> (toothpick i, its endpoint k) whose endpoint is not
\* used and is an endpoint of exactly one toothpick of the state
EligibleVisits(s) ==
    {v \in (1..Len(s.toothpicks)) \X (1..2) :
        LET e == get_endpoints(s.toothpicks[v[1]])[v[2]]
        IN  e \notin s.used_endpoints /\ Touching(s.toothpicks, e) = 1}

\* the candidate of a visit: centered at the endpoint, flipped direction
Candidate(s, v) ==
    LET e == get_endpoints(s.toothpicks[v[1]])[v[2]]
    IN  <<e[1], e[2], Flip(s.toothpicks[v[1]].direction)>>

ExpectedSpawn(s) ==
    {Candidate(s, v) : v \in EligibleVisits(s)} \ Triples(s.toothpicks)

\* the toothpicks a step appended
Appended == SubSeq(self'.toothpicks, Len(self.toothpicks) + 1, Len(self'.toothpicks))

\* C11: the toothpicks a step appends are exactly the candidates of the
\* endpoints that were unused and touched by exactly one toothpick before
\* the step and that are not equal to a toothpick of before the step; each
\* has the configured length.
SpawnRule ==
    [][IsStep =>
         /\ Triples(Appended) = ExpectedSpawn(self)
         /\ \A i \in 1..Len(Appended) : Appended[i].length = Length]_vars

\* a step was made on a state that had endpoints shared by two toothpicks
\* (they did not spawn) next to free ones
SpawnRuleWitness ==
    /\ hist.last = "step"
    /\ self.current_generation = 4
    /\ Len(self.toothpicks) = 15
    /\ \E p \in AllEndpoints(SubSeq(self.toothpicks, 1, 11)) :
          Touching(SubSeq(self.toothpicks, 1, 11), p) = 2

\* largest number of toothpicks for which every permutation of the visits
\* is tried
PermuteUpTo == 3

RECURSIVE Permutations(_)
Permutations(S) ==
    IF S = {}
    THEN {<<>>}
    ELSE UNION {{<<x>> \o p : p \in Permutations(S \ {x})} : x \in S}

\* other orders of the visits of scan_order: backwards, second endpoint
\* first, both, begun at the second visit, begun in the middle, all first
\* endpoints before all second ones; every permutation for a short list
OtherOrders(list) ==
    LET base == scan_order(list)
        n == Len(base)
        half == n \div 2
    IN  {[i \in 1..n |-> base[n + 1 - i]],
         [i \in 1..n |-> <<base[i][1], 3 - base[i][2]>>],
         [i \in 1..n |-> <<base[n + 1 - i][1], 3 - base[n + 1 - i][2]>>],
         [i \in 1..n |-> base[(i % n) + 1]],
         [i \in 1..n |-> base[((i - 1 + half) % n) + 1]],
         [i \in 1..n |-> IF i <= half THEN <<i, 1>> ELSE <<i - half, 2>>]}
        \cup (IF Len(list) <= PermuteUpTo
              THEN {[i \in 1..n |-> base[p[i]]] : p \in Permutations(1..n)}
              ELSE {})

\* what a step that visits in the given order produces
Scanned(s, order) ==
    scan(s, order, 1, [new_toothpicks |-> <<>>, used_endpoints |-> s.used_endpoints])

\* C12: whatever the order in which the endpoints are visited, a step
\* produces the same set of new toothpicks and the same used endpoints as
\* in the order of the code.
OrderIndependent ==
    LET coded == Scanned(self, scan_order(self.toothpicks))
        coded_set == Triples(coded.new_toothpicks)
    IN  \A order \in OtherOrders(self.toothpicks) :
            LET other == Scanned(self, order)
            IN  /\ Triples(other.new_toothpicks) = coded_set
                /\ other.used_endpoints = coded.used_endpoints

\* a grown state in which another order appends the same toothpicks in a
\* different sequence
OrderIndependentWitness ==
    /\ hist.last = "step"
    /\ self.current_generation >= 3
    /\ \E order \in OtherOrders(self.toothpicks) :
          /\ Scanned(self, order).new_toothpicks
                # Scanned(self, scan_order(self.toothpicks)).new_toothpicks
          /\ Len(Scanned(self, order).new_toothpicks) >= 4

(* ------------------ the step as the specification words it ------------ *)

\* Endpoint Index, build: one increment per endpoint of every segment
RECURSIVE build(_, _, _)
build(list, n, index) ==
    IF n > Len(list)
    THEN index
    ELSE LET e == get_endpoints(list[n])
             first == [index EXCEPT ![e[1]] = @ + 1]
             second == [first EXCEPT ![e[2]] = @ + 1]
         IN  build(list, n + 1, second)

endpoint_index(list) == build(list, 1, [p \in AllEndpoints(list) |-> 0])

\* Endpoint Index, touching_count: the count at a coordinate, 0 if absent
index_touching_count(index, point) ==
    IF point \in DOMAIN index THEN index[point] ELSE 0

\* the counts of the pairwise scan of the code, as a mapping
pairwise_index(list) == [p \in AllEndpoints(list) |-> touching_count(list, p)]

\* steps 3a-3d for one endpoint; tested is the used set step 3a consults
spec_visit(s, index, toothpick, endpoint, acc, tested) ==
    IF endpoint \in tested
    THEN acc
    ELSE IF index_touching_count(index, endpoint) = 1
         THEN LET candidate == Toothpick(endpoint[1], endpoint[2],
                                         s.config.toothpick_length,
                                         IF toothpick.direction = "H" THEN "V" ELSE "H")
              IN  IF /\ ~InList(candidate, s.toothpicks)
                     /\ ~InList(candidate, acc.new_toothpicks)
                  THEN [new_toothpicks |-> Append(acc.new_toothpicks, candidate),
                        used_endpoints |-> acc.used_endpoints \cup {endpoint}]
                  ELSE acc
         ELSE acc

\* step 3; live: 3a consults the used set as updated so far in this step,
\* otherwise the used set of before the step
RECURSIVE spec_scan(_, _, _, _, _)
spec_scan(s, index, n, acc, live) ==
    IF n > 2 * Len(s.toothpicks)
    THEN acc
    ELSE LET toothpick == s.toothpicks[(n + 1) \div 2]
             endpoint == get_endpoints(toothpick)[2 - (n % 2)]
             tested == IF live THEN acc.used_endpoints ELSE s.used_endpoints
             visited == spec_visit(s, index, toothpick, endpoint, acc, tested)
         IN  IF visited = acc
             THEN spec_scan(s, index, n + 1, acc, live)
             ELSE spec_scan(s, index, n + 1, visited, live)

\* steps 1-4
spec_step(s, index, live) ==
    LET acc == spec_scan(s, index, 1,
                         [new_toothpicks |-> <<>>, used_endpoints |-> s.used_endpoints],
                         live)
    IN  [s EXCEPT !.toothpicks = s.toothpicks \o acc.new_toothpicks,
                  !.used_endpoints = acc.used_endpoints,
                  !.current_generation = s.current_generation + 1]

(* ----------------------- code against specification ----------------- *)

\* the number of visits of the scan from visit n on that are skipped because
\* of a mark the same step added
RECURSIVE live_skips(_, _, _, _)
live_skips(s, order, n, acc) ==
    IF n > Len(order)
    THEN 0
    ELSE LET toothpick == s.toothpicks[order[n][1]]
             endpoint == get_endpoints(toothpick)[order[n][2]]
         IN  (IF endpoint \in acc.used_endpoints \ s.used_endpoints THEN 1 ELSE 0)
             + live_skips(s, order, n + 1, visit_endpoint(s, toothpick, endpoint, acc))

\* C13: no visit of a step is skipped because of a mark added earlier in
\* the same step, and the step that tests the used set of before the step
\* gives the same state as the step of the code, which tests the live set.
LiveIsSnapshot ==
    /\ live_skips(self, scan_order(self.toothpicks), 1,
                  [new_toothpicks |-> <<>>, used_endpoints |-> self.used_endpoints]) = 0
    /\ spec_step(self, pairwise_index(self.toothpicks), FALSE)
          = generate_next_generation(self)

\* a grown state whose next step marks endpoints while endpoints shared by
\* two toothpicks are still to be visited
LiveIsSnapshotWitness ==
    /\ hist.last = "step"
    /\ self.current_generation >= 2
    /\ generate_next_generation(self).used_endpoints # self.used_endpoints
    /\ \E p \in AllEndpoints(self.toothpicks) : Touching(self.toothpicks, p) = 2

\* C14: at every endpoint of the state the count of the pairwise scan is
\* the count of the Endpoint Index and is at least 1, and the step that
\* looks the counts up in the index gives the state the step of the code
\* gives.
IndexIsPairwise ==
    LET index == endpoint_index(self.toothpicks)
    IN  /\ \A p \in AllEndpoints(self.toothpicks) :
              /\ touching_count(self.toothpicks, p) = index_touching_count(index, p)
              /\ touching_count(self.toothpicks, p) >= 1
        /\ spec_step(self, index, TRUE) = generate_next_generation(self)

\* a grown state with counts 1 and 2
IndexIsPairwiseWitness ==
    /\ hist.last = "step"
    /\ self.current_generation >= 3
    /\ \E p, q \in AllEndpoints(self.toothpicks) :
          /\ index_touching_count(endpoint_index(self.toothpicks), p) = 1
          /\ index_touching_count(endpoint_index(self.toothpicks), q) = 2

\* C15: the list is never empty, so get_bounds never takes its fallback;
\* it returns the exact box of all endpoints: every endpoint lies inside it
\* and each of its four bounds is attained by an endpoint.  For an empty
\* list it returns (-100, 100, -100, 100).
BoundsExact ==
    /\ self.toothpicks # <<>>
    /\ LET box == get_bounds(self)
           points == AllEndpoints(self.toothpicks)
       IN  /\ \A p \in points : box[1] <= p[1] /\ p[1] <= box[2]
                                /\ box[3] <= p[2] /\ p[2] <= box[4]
           /\ \E p \in points : p[1] = box[1]
           /\ \E p \in points : p[1] = box[2]
           /\ \E p \in points : p[2] = box[3]
           /\ \E p \in points : p[2] = box[4]
    /\ get_bounds([self EXCEPT !.toothpicks = <<>>]) = <<-100, 100, -100, 100>>

\* get_bounds was asked in a grown state
BoundsExactWitness ==
    /\ hist.last = "step"
    /\ self.current_generation >= 3
    /\ bounds = get_bounds(self)

\* C16: used_endpoints is the set of the centers of the toothpicks after the
\* seed, no two toothpicks have the same center, and so used_endpoints has
\* one element less than the list.
UsedAreCenters ==
    /\ self.used_endpoints = {<<self.toothpicks[i].x, self.toothpicks[i].y>> :
                                 i \in 2..Len(self.toothpicks)}
    /\ \A i, j \in 1..Len(self.toothpicks) :
          i # j => <<self.toothpicks[i].x, self.toothpicks[i].y>>
                   # <<self.toothpicks[j].x, self.toothpicks[j].y>>
    /\ Cardinality(self.used_endpoints) = Len(self.toothpicks) - 1

UsedAreCentersWitness ==
    /\ hist.last = "step"
    /\ self.current_generation >= 3
    /\ Cardinality(self.used_endpoints) >= 10
    /\ hist.reset_seen

\* C17: the candidate of every endpoint that is unused and touched by
\* exactly one toothpick is not in the list and differs from the candidate
\* of every other such endpoint, so the step appends one toothpick for each
\* of them and marks each of them used.
DedupNeverDecides ==
    LET eligible == EligibleVisits(self)
        candidates == {Candidate(self, v) : v \in eligible}
        next == generate_next_generation(self)
    IN  /\ candidates \cap Triples(self.toothpicks) = {}
        /\ \A v, w \in eligible :
              w # v => Candidate(self, w) # Candidate(self, v)
        /\ Len(next.toothpicks) = Len(self.toothpicks) + Cardinality(eligible)
        /\ next.used_endpoints
              = self.used_endpoints
                \cup {get_endpoints(self.toothpicks[v[1]])[v[2]] : v \in eligible}

\* a grown state with free endpoints next to used and shared ones
DedupNeverDecidesWitness ==
    /\ hist.last = "step"
    /\ self.current_generation >= 3
    /\ Cardinality(EligibleVisits(self)) >= 4
    /\ Cardinality(EligibleVisits(self)) < 2 * Len(self.toothpicks) - Cardinality(self.used_endpoints)

\* C19: the set of toothpicks is its own mirror image in both axes, and the
\* bounds are symmetric: min_x = -max_x and min_y = -max_y.
Symmetric ==
    /\ \A t \in Triples(self.toothpicks) :
          /\ <<-t[1], t[2], t[3]>> \in Triples(self.toothpicks)
          /\ <<t[1], -t[2], t[3]>> \in Triples(self.toothpicks)
    /\ get_bounds(self)[1] = -get_bounds(self)[2]
    /\ get_bounds(self)[3] = -get_bounds(self)[4]

SymmetricWitness ==
    /\ hist.last = "step"
    /\ self.current_generation >= 4
    /\ bounds = get_bounds(self)
    /\ \E t \in Triples(self.toothpicks) : t[1] > 0 /\ t[2] > 0

\* C18: once handle_events has processed a QUIT or ESCAPE event, running is
\* False when handle_events returns, and the run loop leaves at its next
\* loop test: it does not handle events again.
QuitStops ==
    hist.quit_seen => (~self.running /\ pc # "handle_events")

\* C20: in the run loop, if no QUIT or ESCAPE event is processed and from
\* some time on no R event, current_generation reaches max_generations and
\* stays there; at max_generations no step is made and the growth state
\* stays as it is unless a reset comes; the automatic step counts the frame
\* counter up and makes a step and sets it to 0 when it reaches
\* generation_delay, so the counter stays below generation_delay.
AutoGrowth ==
    /\ ([]~hist.quit_seen /\ <>[]~hist.reset_seen)
          => <>[](self.current_generation = self.config.max_generations)
    /\ [][(/\ self.current_generation = self.config.max_generations
           /\ ~(pc = "handle_events" /\ hist'.reset_seen))
          => /\ hist'.steps = hist.steps
             /\ self'.toothpicks = self.toothpicks
             /\ self'.used_endpoints = self.used_endpoints
             /\ self'.current_generation = self.current_generation]_vars
    /\ [][(pc = "auto" /\ self.current_generation < self.config.max_generations)
          => IF self.frame_counter + 1 >= self.config.generation_delay
             THEN hist'.steps = hist.steps + 1 /\ self'.frame_counter = 0
             ELSE hist'.steps = hist.steps
                  /\ self'.frame_counter = self.frame_counter + 1]_vars
    /\ [](self.frame_counter >= 0 /\ self.frame_counter < self.config.generation_delay)

\* the automatic step has just brought the fractal to max_generations after
\* counting the frames
AutoGrowthWitness ==
    /\ pc = "draw"
    /\ hist.last = "step"
    /\ ~hist.quit_seen
    /\ self.config.generation_delay >= 2
    /\ self.config.max_generations >= 2
    /\ self.current_generation = self.config.max_generations
    /\ self.frame_counter = 0

====
